---- MODULE Spec2Model ----
(***************************************************************************)
(* Model of stay.js, a file-system facade over one IndexedDB object store  *)
(* ("files", keyPath "path", non-unique index "dir").                      *)
(*                                                                         *)
(* Strings are sequences of one-character strings.  The object store is a  *)
(* function from primary keys to records.  IndexedDB transactions on the   *)
(* single store are started in the order they were created; the model      *)
(* keeps them in `queue`.  One action is one browser task: a caller         *)
(* invoking an operation, or one IndexedDB event handler, each followed by  *)
(* the promise continuations it makes runnable (microtasks run to          *)
(* completion before the next event is dispatched).                        *)
(*                                                                         *)
(* writeFile, deleteFile and mkdir return `tx.complete`.  The handle kept  *)
(* in `db` is the native IDBDatabase (req.result of indexedDB.open), whose *)
(* transactions have no `complete` property, so these functions resolve    *)
(* with undefined as soon as the request has been placed and nothing       *)
(* listens for the transaction's completion, error or abort.               *)
(***************************************************************************)
EXTENDS Integers, Sequences, FiniteSets, TLC

\* ---------------------------------------------------------------- bounds
NumTasks == 2
MaxCalls == 2
MaxClock == 1
MaxFaults == 1
MaxLen == 4

Tasks == 1..NumTasks

\* ------------------------------------------------------ inputs (strings)
SEP == "/"
P_a_b    == <<"/", "a", "/", "/", "b", ".", "t", "x", "t">>  \* "/a//b.txt"
P_ab     == <<"/", "a", "/", "b", ".", "t", "x", "t">>       \* "/a/b.txt"
P_cb     == <<"/", "c", "/", "b", ".", "t", "x", "t">>       \* "/c/b.txt"
P_a      == <<"/", "a">>                                     \* "/a"
P_aSlash == <<"/", "a", "/">>                                \* "/a/"

C_empty == <<>>            \* ""
C_hi    == <<"h", "i">>    \* "hi"
C_a     == <<"a">>         \* "a"
C_b     == <<"b">>         \* "b"

ReadPaths    == {P_ab, P_cb}
RemovePaths  == {P_a_b, P_aSlash}
ExistsPaths  == {P_ab}
MkdirPaths   == {P_a}
ListDirs     == {P_a}
SrcPaths     == {P_ab}
DstPaths     == {P_cb}
\* moveFile(source, destination): also a destination naming the source
MoveDstPaths == {P_cb, P_a_b}
AppendPaths  == {P_a_b}
AppendContents == {C_a, C_b}
\* the line delimiter of readLines and writeLines
NL == "\n"
\* writeLines(path, lines): lines is an array of strings (isArray, v the
\* array) or a single string (v holds just that string)
ArrayOf(L)  == [isArray |-> TRUE, v |-> L]
SingleString(str) == [isArray |-> FALSE, v |-> <<str>>]
LinesInputs ==
  {ArrayOf(<<>>), ArrayOf(<< <<>> >>), ArrayOf(<< <<"a">>, <<"b">> >>),
   SingleString(<<"a", NL, "b">>)}
LinesPaths  == {P_ab}
\* writeFile(path, content): the argument pairs callers pass
WriteInputs == {<<P_a_b, C_empty>>, <<P_a_b, C_hi>>, <<P_aSlash, C_hi>>}
StatPaths   == {P_ab}
\* the characters strings handed to normalizePath are made of
Chars == {SEP, "a", "."}

\* ------------------------------------------------------- string helpers
RECURSIVE Collapse(_)
\* String.prototype.replace(/\/+/g, "/")
Collapse(s) ==
  IF Len(s) <= 1 THEN s
  ELSE IF s[1] = SEP /\ s[2] = SEP THEN Collapse(Tail(s))
  ELSE <<s[1]>> \o Collapse(Tail(s))

startsWithSep(s) == Len(s) > 0 /\ s[1] = SEP

\* isDirectory: path.endsWith("/")
isDirectory(path) == Len(path) > 0 /\ path[Len(path)] = SEP

\* 1-based position of the last separator, 0 when there is none
lastIndexOf(s) ==
  LET I == {i \in 1..Len(s) : s[i] = SEP}
  IN IF I = {} THEN 0 ELSE CHOOSE i \in I : \A j \in I : j <= i

\* variant of normalizePath: no separator is put in front
normalizePath_noLead(path) == Collapse(path)

normalizePath(path) ==
  Collapse(IF startsWithSep(path) THEN path ELSE <<SEP>> \o path)

getDir(path) ==
  LET normalized == Collapse(path)
      sub == SubSeq(normalized, 1, lastIndexOf(normalized) - 1)
  IN IF sub = <<>> THEN <<SEP>> ELSE sub

\* path.split("/").pop()
baseName(path) == SubSeq(path, lastIndexOf(path) + 1, Len(path))

RECURSIVE stripTrailingSep(_)
stripTrailingSep(s) ==
  IF isDirectory(s) THEN stripTrailingSep(SubSeq(s, 1, Len(s) - 1)) ELSE s

\* path.split("/").filter(Boolean).pop() || "root"
dirBaseName(path) ==
  LET seg == baseName(stripTrailingSep(path))
  IN IF seg = <<>> THEN <<"r", "o", "o", "t">> ELSE seg

\* if (!path.endsWith("/")) path += "/"
forceTrailingSep(path) == IF isDirectory(path) THEN path ELSE path \o <<SEP>>

\* content || ""
orEmpty(content) == IF content = <<>> THEN <<>> ELSE content

RECURSIVE Join(_)
\* Array.prototype.join("\n")
Join(lines) ==
  IF lines = <<>> THEN <<>>
  ELSE IF Len(lines) = 1 THEN lines[1]
  ELSE lines[1] \o <<NL>> \o Join(Tail(lines))

\* String.prototype.split("\n"): the pieces between the delimiters, one
\* piece (the whole string, be it empty) when there is none
Split(str) ==
  LET piece[i \in 0..Len(str)] ==
        IF i = 0 THEN << <<>> >>
        ELSE IF str[i] = NL THEN Append(piece[i - 1], <<>>)
        ELSE [piece[i - 1] EXCEPT ![Len(piece[i - 1])] = Append(@, str[i])]
  IN piece[Len(str)]

\* Array.isArray(lines) ? lines.join("\n") : lines
linesContent(lines) == IF lines.isArray THEN Join(lines.v) ELSE lines.v[1]

\* ---------------------------------------------------------------- records
FileRecord(path, content, now) ==
  [path |-> path, name |-> baseName(path), dir |-> getDir(path),
   content |-> orEmpty(content), size |-> Len(orEmpty(content)),
   type |-> "file", createdAt |-> now, updatedAt |-> now]

DirRecord(path, now) ==
  [path |-> path, name |-> dirBaseName(path), dir |-> getDir(path),
   content |-> <<>>, size |-> 0,
   type |-> "directory", createdAt |-> now, updatedAt |-> now]

\* the object pushed to results by the cursor handler of listFiles
Meta(rec) ==
  [name |-> rec.name, path |-> rec.path, size |-> rec.size, type |-> rec.type,
   createdAt |-> rec.createdAt, updatedAt |-> rec.updatedAt]

NoRec == [path |-> <<>>]

\* values a call settles with
Undefined == [t |-> "undefined"]
Str(s)    == [t |-> "string", v |-> s]
Bool(b)   == [t |-> "boolean", v |-> b]
List(S)   == [t |-> "array", v |-> S]
Lines(L)  == [t |-> "lines", v |-> L]

\* the object stat resolves with: size is file.size || file.content.length
Stats(rec) ==
  [t |-> "object",
   v |-> [name |-> rec.name, path |-> rec.path,
          size |-> IF rec.size # 0 THEN rec.size ELSE Len(rec.content),
          type |-> rec.type, createdAt |-> rec.createdAt,
          updatedAt |-> rec.updatedAt]]


\* ------------------------------------------------------------------ state
VARIABLES
  db,      \* module variable `db`: "closed" until an open request succeeds
  store,   \* the object store "files": primary key -> record
  queue,   \* transactions created and not yet run, in creation order
  call,    \* per caller: the operation in progress or last settled
  clock,   \* the latest value new Date() has yielded
  opens,   \* number of indexedDB.open requests made so far
  calls,   \* number of operations invoked so far
  faults,  \* number of store faults injected so far
  hist,    \* history: per key, the latest mutation requested, in request order
  aborted, \* history: the readwrite transactions that aborted
  norm     \* a string handed to normalizePath and what came back

vars == <<db, store, queue, call, clock, opens, calls, faults, hist, aborted, norm>>

\* norm: the string p, normalizePath(p) as r1 and normalizePath(r1) as r2,
\* n of them computed so far
NoNorm == [p |-> <<>>, r1 |-> <<>>, r2 |-> <<>>, n |-> 0]

\* a transaction with its one request; id, op and arg tell which call of
\* which operation created it and the path string that call was given
Tx(kind, c, t, key, rec, arg) ==
  [kind |-> kind, task |-> t, key |-> key, rec |-> rec,
   id |-> c.id, op |-> c.op, arg |-> arg]

\* hist[k]: which operation of which caller last asked to change key k, and
\* whether it asked for a record (with content val) or for none
NoHist == [op |-> "none", by |-> 0, present |-> FALSE, val |-> <<>>]
HistAt(h, k) == IF k \in DOMAIN h THEN h[k] ELSE NoHist

\* A call: op and its arguments (path, dst, content), the primitive it is in
\* (phase, pc), the local `content` / `existingContent` (got), and how it
\* settled (status, result, err).  History kept with it: id numbers the
\* calls; seen is hist at the call's path when it was invoked; clean tells
\* that nobody else asked to change that key between the invocation and the
\* call's own write; wrote is the content it handed to writeFile.
IdleCall ==
  [op |-> "none", phase |-> "none", pc |-> "done", path |-> <<>>, dst |-> <<>>,
   content |-> <<>>, got |-> <<>>, status |-> "idle", result |-> Undefined,
   err |-> <<>>, id |-> 0, seen |-> NoHist, clean |-> TRUE, wrote |-> <<>>,
   lines |-> ArrayOf(<<>>)]

\* ------------------------------------------------- the object store (IDB)
\* variant of put: IDBObjectStore.add semantics, an existing record is kept
put_keepExisting(s, rec) == IF rec.path \in DOMAIN s THEN s ELSE (rec.path :> rec) @@ s

\* IDBObjectStore.put: insert or replace the record under its key path
put(s, rec) == (rec.path :> rec) @@ s

\* variant of delete: the records beneath the key go with it
delete_cascade(s, key) ==
  [k \in {k2 \in DOMAIN s : ~(Len(k2) >= Len(key) /\ SubSeq(k2, 1, Len(key)) = key)}
     |-> s[k]]

\* IDBObjectStore.delete: remove the record with exactly this key, if any
delete(s, key) == [k \in DOMAIN s \ {key} |-> s[k]]

\* IDBObjectStore.get: req.result is the record, or undefined
has(s, key) == key \in DOMAIN s

\* index("dir").openCursor(IDBKeyRange.only(dir)): the records whose indexed
\* property equals dir (visited in primary-key order)
cursorOnly(s, dir) == {Meta(s[k]) : k \in {k2 \in DOMAIN s : s[k2].dir = dir}}

isReadonly(tx) == tx.kind \in {"get", "cursor"}

\* a transaction may start once every earlier one it overlaps with has
\* finished; readonly transactions do not wait for each other
canStart(q, i) ==
  /\ i \in 1..Len(q)
  /\ \/ i = 1
     \/ \A j \in 1..i : isReadonly(q[j])

removeAt(q, i) == SubSeq(q, 1, i - 1) \o SubSeq(q, i + 1, Len(q))

\* The object store outlives the page: a session starts with db unset and
\* with the records earlier sessions left behind, here none, or the file
\* /a/b.txt holding "hi" next to the directory record /a/, both as writeFile
\* and mkdir build them.
EarlierSession ==
  put(put(<<>>, FileRecord(normalizePath(P_a_b), C_hi, 0)),
      DirRecord(forceTrailingSep(normalizePath(P_a)), 0))

InitStores == {<<>>, EarlierSession}

Start ==
  /\ db = "closed"
  /\ store \in InitStores
  /\ queue = <<>>
  /\ call = [t \in Tasks |-> IdleCall]
  /\ clock = 0
  /\ opens = 0
  /\ calls = 0
  /\ faults = 0
  /\ hist = [k \in DOMAIN store |->
               [op |-> "earlier", by |-> 0, present |-> TRUE, val |-> store[k].content]]
  /\ aborted = {}

Init == Start /\ norm = NoNorm

\* ------------------------------------------------------ primitive requests
\* variant of writeFileTx: the path is used as given
writeFileTx_raw(c, t, path, content, now) ==
  Tx("put", c, t, path, FileRecord(path, content, now), path)

\* writeFile: the transaction it creates and the request it places, with
\* p the value of `path = normalizePath(path)`
writeFileTx(c, t, path, content, now) ==
  CHOOSE tx \in {Tx("put", c, t, p, FileRecord(p, content, now), path) :
                   p \in {normalizePath(path)}} : TRUE

\* mkdir, with p the value of path after `if (!path.endsWith("/")) path += "/"`
mkdirTx(c, t, path, now) ==
  CHOOSE tx \in {Tx("put", c, t, p, DirRecord(p, now), path) :
                   p \in {forceTrailingSep(normalizePath(path))}} : TRUE

\* variant of deleteFileTx: the path is used as given
deleteFileTx_raw(c, t, path) == Tx("delete", c, t, path, NoRec, path)

\* deleteFile
deleteFileTx(c, t, path) == Tx("delete", c, t, normalizePath(path), NoRec, path)

\* readFile / exists: store.get(path)
getTx(c, t, path) == Tx("get", c, t, normalizePath(path), NoRec, path)

\* listFiles: index.openCursor(IDBKeyRange.only(dir))
listFilesTx(c, t, dir) ==
  Tx("cursor", c, t, forceTrailingSep(normalizePath(dir)), NoRec, dir)

\* ------------------------------------------------------- control of a call
FirstPhase(op) ==
  CASE op \in {"copy", "move", "rename", "readLines"} -> "read"
    [] op = "writeLines" -> "write"
    [] op = "append" -> "exists"
    [] OTHER -> op

\* catch (error) { throw new Error(`Failed to <op> ...: ${error.message}`) }
Wrap(tag, err) == <<tag>> \o err

Resolve(c, val) == [c EXCEPT !.status = "resolved", !.result = val, !.pc = "done"]
Reject(c, err)  == [c EXCEPT !.status = "rejected", !.err = err, !.pc = "done"]
Then(c, phase)  == [c EXCEPT !.phase = phase, !.pc = "start"]

\* outcome of the body of a composite: it goes on, returns or throws
More(c)   == [k |-> "more", c |-> c, err |-> <<>>]
Done(c)   == [k |-> "done", c |-> c, err |-> <<>>, val |-> Undefined]
Return(c, val) == [k |-> "done", c |-> c, err |-> <<>>, val |-> val]
Throw(c, err) == [k |-> "throw", c |-> c, err |-> err]

\* variant of copyFile: a failed read is taken for empty content
copyFile_ignoreMissing(c, ok, val, err) ==
  IF c.phase = "read"
  THEN More(Then([c EXCEPT !.got = IF ok THEN val.v ELSE <<>>], "write"))
  ELSE Done(c)

\* copyFile: content = await readFile(source); await writeFile(destination, content)
copyFile(c, ok, val, err) ==
  IF ~ok THEN Throw(c, Wrap("copy", err))
  ELSE IF c.phase = "read" THEN More(Then([c EXCEPT !.got = val.v], "write"))
  ELSE Done(c)

\* variant of moveAfterCopy: the source is not deleted after the copy
moveAfterCopy_keepSource(r) ==
  IF r.k = "throw" THEN Throw(r.c, Wrap("move", r.err)) ELSE r

\* moveFile once its `await copyFile(source, destination)` has gone on,
\* returned or thrown (r)
moveAfterCopy(r) ==
  CASE r.k = "more"  -> r
    [] r.k = "done"  -> More(Then(r.c, "delete"))
    [] r.k = "throw" -> Throw(r.c, Wrap("move", r.err))

\* moveFile: await copyFile(source, destination); await deleteFile(source)
moveFile(c, ok, val, err) ==
  IF c.phase \in {"read", "write"}
  THEN moveAfterCopy(copyFile(c, ok, val, err))
  ELSE IF ok THEN Done(c) ELSE Throw(c, Wrap("move", err))

\* renameFile once its `await moveFile(oldPath, newPath)` has gone on,
\* returned or thrown (r)
renameAfterMove(r) ==
  IF r.k = "throw" THEN Throw(r.c, Wrap("rename", r.err)) ELSE r

\* renameFile: await moveFile(oldPath, newPath)
renameFile(c, ok, val, err) == renameAfterMove(moveFile(c, ok, val, err))

\* variant of appendFile: the existing content is never read
appendFile_noRead(c, ok, val, err) ==
  IF ~ok THEN Throw(c, Wrap("append", err))
  ELSE IF c.phase = "write" THEN Done(c) ELSE More(Then(c, "write"))

\* appendFile: if (await exists(path)) existingContent = await readFile(path);
\*             await writeFile(path, existingContent + content)
appendFile(c, ok, val, err) ==
  IF ~ok THEN Throw(c, Wrap("append", err))
  ELSE CASE c.phase = "exists" ->
              IF val.v THEN More(Then(c, "read")) ELSE More(Then(c, "write"))
         [] c.phase = "read"  -> More(Then([c EXCEPT !.got = val.v], "write"))
         [] c.phase = "write" -> Done(c)

\* readLines: content = await readFile(path); return content.split("\n")
readLines(c, ok, val, err) ==
  IF ~ok THEN Throw(c, Wrap("readLines", err))
  ELSE Return(c, Lines(Split(val.v)))

\* writeLines: await writeFile(path, content)
writeLines(c, ok, val, err) ==
  IF ~ok THEN Throw(c, Wrap("writeLines", err)) ELSE Done(c)

\* the async function of a composite goes on, returns or throws (r)
settle(r) ==
  CASE r.k = "more"  -> r.c
    [] r.k = "done"  -> Resolve(r.c, r.val)
    [] r.k = "throw" -> Reject(r.c, r.err)

composite(c, ok, val, err) ==
  CASE c.op = "copy"   -> copyFile(c, ok, val, err)
    [] c.op = "move"   -> moveFile(c, ok, val, err)
    [] c.op = "rename" -> renameFile(c, ok, val, err)
    [] c.op = "append" -> appendFile(c, ok, val, err)
    [] c.op = "readLines"  -> readLines(c, ok, val, err)
    [] c.op = "writeLines" -> writeLines(c, ok, val, err)

\* the call after its current primitive settled with (ok, val, err)
AfterPrim(c, ok, val, err) ==
  IF c.op \in {"copy", "move", "rename", "append", "readLines", "writeLines"}
  THEN settle(composite(c, ok, val, err))
  ELSE IF ok THEN Resolve(c, val) ELSE Reject(c, err)

\* variant of PrimFail: exists lets the failure through like the others
PrimFail_propagate(c, err) == AfterPrim(c, FALSE, Undefined, err)

\* the current primitive failed with err.  exists turns every failure into
\* false (req.onerror = () => resolve(false); catch { return false }), the
\* other primitives reject
PrimFail(c, err) ==
  IF c.phase = "exists" THEN AfterPrim(c, TRUE, Bool(FALSE), <<>>)
  ELSE AfterPrim(c, FALSE, Undefined, err)

\* arguments the composite passes to the primitive it is calling
PrimPath(c) ==
  IF c.phase = "write" /\ c.op \in {"copy", "move", "rename"} THEN c.dst ELSE c.path

\* variant of PrimContent: append hands over the new content alone
PrimContent_appendNewOnly(c) ==
  CASE c.op \in {"write", "append"} -> c.content
    [] c.op = "writeLines" -> linesContent(c.lines)
    [] OTHER -> c.got

PrimContent(c) ==
  CASE c.op = "write"  -> c.content
    [] c.op = "append" -> c.got \o c.content
    [] c.op = "writeLines" -> linesContent(c.lines)
    [] OTHER           -> c.got

\* history: caller t's call c asks to change the key its path argument names
Note(h, t, c, key, present, val) ==
  (key :> [op |-> c.op, by |-> t, present |-> present, val |-> val]) @@ h

\* history of the call at the moment it hands content to writeFile
Wrote(st, val) ==
  [st.c EXCEPT !.wrote = val,
               !.clean = (HistAt(st.h, normalizePath(st.c.path)) = st.c.seen)]

\* the part of a primitive after `await ensureInit()`, with db open:
\* st = [c, q, h, n, open, now, dated, t]
PrimStart(st) ==
  LET c == st.c
      t == st.t
  IN CASE c.phase = "write" ->
            LET tx == writeFileTx(c, t, PrimPath(c), PrimContent(c), st.now)
            IN [st EXCEPT !.q = Append(@, tx), !.dated = TRUE,
                          !.h = Note(@, t, c, normalizePath(PrimPath(c)), TRUE, PrimContent(c)),
                          !.c = AfterPrim(Wrote(st, PrimContent(c)), TRUE, Undefined, <<>>)]
       [] c.phase = "mkdir" ->
            LET tx == mkdirTx(c, t, PrimPath(c), st.now)
            IN [st EXCEPT !.q = Append(@, tx), !.dated = TRUE,
                          !.h = Note(@, t, c, forceTrailingSep(normalizePath(PrimPath(c))), TRUE, <<>>),
                          !.c = AfterPrim(c, TRUE, Undefined, <<>>)]
       [] c.phase = "delete" ->
            LET tx == deleteFileTx(c, t, PrimPath(c))
            IN [st EXCEPT !.q = Append(@, tx),
                          !.h = Note(@, t, c, normalizePath(PrimPath(c)), FALSE, <<>>),
                          !.c = AfterPrim(c, TRUE, Undefined, <<>>)]
       [] c.phase \in {"read", "exists", "stat"} ->
            [st EXCEPT !.q = Append(@, getTx(c, t, PrimPath(c))),
                       !.c.pc = "waiting"]
       [] c.phase = "list" ->
            [st EXCEPT !.q = Append(@, listFilesTx(c, t, PrimPath(c))),
                       !.c.pc = "waiting"]

RECURSIVE Run(_)
\* run caller st.t until it settles or has to wait for the store.
\* ensureInit: db || await init().  (v names the state the primitive left,
\* so that it is computed once.)
Run(st) ==
  IF st.c.status # "pending" \/ st.c.pc # "start" THEN st
  ELSE IF ~st.open THEN [st EXCEPT !.c.pc = "opening", !.n = @ + 1]
  ELSE CHOOSE r \in {Run(v) : v \in {PrimStart(st)}} : TRUE

\* new Date() never yields less than it did before; the clock is read only
\* where a record is built
Resume(t, c, q, open) ==
  \E now \in clock..MaxClock :
    \E st \in {Run(v) : v \in {[c |-> c, q |-> q, h |-> hist, n |-> opens,
                                 open |-> open, now |-> now, dated |-> FALSE,
                                 t |-> t]}} :
      /\ call' = [call EXCEPT ![t] = st.c]
      /\ queue' = st.q
      /\ hist' = st.h
      /\ opens' = st.n
      /\ clock' = IF st.dated THEN now ELSE clock

\* ----------------------------------------------------------------- actions
NewCall(op, path, dst, content) ==
  [IdleCall EXCEPT !.op = op, !.phase = FirstPhase(op), !.pc = "start",
                   !.path = path, !.dst = dst, !.content = content,
                   !.status = "pending", !.id = calls + 1,
                   !.seen = IF op \in {"append", "copy", "move", "rename", "delete",
                                     "readLines"}
                            THEN HistAt(hist, normalizePath(path)) ELSE NoHist]

Invoke(t, c) ==
  /\ call[t].status # "pending"
  /\ t > 1 => call[t - 1].status # "idle"
  /\ calls < MaxCalls
  /\ calls' = calls + 1
  /\ Resume(t, c, queue, db = "open")
  /\ UNCHANGED <<db, store, faults, aborted, norm>>

CallWrite(t)  == \E w \in WriteInputs : Invoke(t, NewCall("write", w[1], <<>>, w[2]))
CallRead(t)   == \E p \in ReadPaths : Invoke(t, NewCall("read", p, <<>>, <<>>))
CallRemove(t) == \E p \in RemovePaths : Invoke(t, NewCall("delete", p, <<>>, <<>>))
CallStat(t)   == \E p \in StatPaths : Invoke(t, NewCall("stat", p, <<>>, <<>>))
CallExists(t) == \E p \in ExistsPaths : Invoke(t, NewCall("exists", p, <<>>, <<>>))
CallMkdir(t)  == \E p \in MkdirPaths : Invoke(t, NewCall("mkdir", p, <<>>, <<>>))
CallList(t)   == \E d \in ListDirs : Invoke(t, NewCall("list", d, <<>>, <<>>))
CallCopy(t)   == \E s \in SrcPaths, d \in DstPaths : Invoke(t, NewCall("copy", s, d, <<>>))
CallMove(t)   == \E s \in SrcPaths, d \in MoveDstPaths : Invoke(t, NewCall("move", s, d, <<>>))
CallRename(t) == \E s \in SrcPaths, d \in DstPaths : Invoke(t, NewCall("rename", s, d, <<>>))
CallReadLines(t)  == \E p \in LinesPaths : Invoke(t, NewCall("readLines", p, <<>>, <<>>))
CallWriteLines(t) ==
  \E p \in LinesPaths, L \in LinesInputs :
    Invoke(t, [NewCall("writeLines", p, <<>>, <<>>) EXCEPT !.lines = L])
CallAppend(t) == \E p \in AppendPaths, x \in AppendContents : Invoke(t, NewCall("append", p, <<>>, x))

\* req.onsuccess of indexedDB.open: db = req.result; resolve()
OpenSuccess(t) ==
  /\ call[t].status = "pending" /\ call[t].pc = "opening"
  /\ db' = "open"
  /\ Resume(t, [call[t] EXCEPT !.pc = "start"], queue, TRUE)
  /\ UNCHANGED <<store, calls, faults, aborted, norm>>

\* the transaction at the head of the queue commits its put or delete
Commit ==
  /\ queue # <<>>
  /\ ~isReadonly(Head(queue))
  /\ store' = IF Head(queue).kind = "put"
              THEN put(store, Head(queue).rec)
              ELSE delete(store, Head(queue).key)
  /\ queue' = Tail(queue)
  /\ UNCHANGED <<db, call, clock, opens, calls, faults, hist, aborted, norm>>

\* req.onsuccess of store.get(path) in readFile, exists and stat
GetSuccess(i) ==
  /\ canStart(queue, i)
  /\ queue[i].kind = "get"
  /\ LET tx == queue[i]
         t == tx.task
         c == call[t]
         found == has(store, tx.key)
         c2 == IF c.phase = "exists" THEN AfterPrim(c, TRUE, Bool(found), <<>>)
               ELSE IF found
                 THEN AfterPrim(c, TRUE, IF c.phase = "stat" THEN Stats(store[tx.key])
                                         ELSE Str(store[tx.key].content), <<>>)
               ELSE AfterPrim(c, FALSE, Undefined, <<"NotFound">>)
     IN Resume(t, c2, removeAt(queue, i), TRUE)
  /\ UNCHANGED <<db, store, calls, faults, aborted, norm>>

\* the cursor of listFiles runs to its end: resolve(results)
CursorDone(i) ==
  /\ canStart(queue, i)
  /\ queue[i].kind = "cursor"
  /\ LET tx == queue[i]
         t == tx.task
         c2 == AfterPrim(call[t], TRUE, List(cursorOnly(store, tx.key)), <<>>)
     IN Resume(t, c2, removeAt(queue, i), TRUE)
  /\ UNCHANGED <<db, store, calls, faults, aborted, norm>>

\* store fault: the readwrite transaction at the head of the queue aborts;
\* its put or delete is not applied and no handler of stay.js is attached
Abort ==
  /\ faults < MaxFaults
  /\ queue # <<>>
  /\ ~isReadonly(Head(queue))
  /\ faults' = faults + 1
  /\ queue' = Tail(queue)
  /\ aborted' = aborted \cup {[id |-> Head(queue).id, kind |-> Head(queue).kind,
                                task |-> Head(queue).task]}
  /\ UNCHANGED <<db, store, call, clock, opens, calls, hist, norm>>

\* store fault: req.onerror of indexedDB.open, init rejects with req.error;
\* `await ensureInit()` throws inside the try of the primitive, whose catch
\* wraps the error (exists returns false); db stays unset
OpenError(t) ==
  /\ faults < MaxFaults
  /\ call[t].status = "pending" /\ call[t].pc = "opening"
  /\ faults' = faults + 1
  /\ Resume(t, PrimFail([call[t] EXCEPT !.pc = "start"],
                        Wrap(call[t].phase, <<"StoreFault">>)),
            queue, db = "open")
  /\ UNCHANGED <<db, store, calls, aborted, norm>>

\* store fault: req.onerror of store.get(path): readFile and stat reject
\* with req.error, exists resolves false
GetError(i) ==
  /\ faults < MaxFaults
  /\ canStart(queue, i)
  /\ queue[i].kind = "get"
  /\ faults' = faults + 1
  /\ Resume(queue[i].task, PrimFail(call[queue[i].task], <<"StoreFault">>),
            removeAt(queue, i), TRUE)
  /\ UNCHANGED <<db, store, calls, aborted, norm>>

\* store fault: the request of index.openCursor(range) fails; listFiles set
\* onsuccess only and passes no reject to its promise, so nothing runs
CursorError(i) ==
  /\ faults < MaxFaults
  /\ canStart(queue, i)
  /\ queue[i].kind = "cursor"
  /\ faults' = faults + 1
  /\ queue' = removeAt(queue, i)
  /\ UNCHANGED <<db, store, call, clock, opens, calls, hist, aborted, norm>>

Next ==
  \/ \E t \in Tasks : CallWrite(t)
  \/ \E t \in Tasks : CallRead(t)
  \/ \E t \in Tasks : CallRemove(t)
  \/ \E t \in Tasks : CallExists(t)
  \/ \E t \in Tasks : CallStat(t)
  \/ \E t \in Tasks : CallMkdir(t)
  \/ \E t \in Tasks : CallList(t)
  \/ \E t \in Tasks : CallCopy(t)
  \/ \E t \in Tasks : CallMove(t)
  \/ \E t \in Tasks : CallRename(t)
  \/ \E t \in Tasks : CallAppend(t)
  \/ \E t \in Tasks : CallReadLines(t)
  \/ \E t \in Tasks : CallWriteLines(t)
  \/ \E t \in Tasks : OpenSuccess(t)
  \/ Commit
  \/ \E i \in 1..Len(queue) : GetSuccess(i)
  \/ \E i \in 1..Len(queue) : CursorDone(i)

Spec == Init /\ [][Next]_vars

NextFault ==
  \/ Next
  \/ Abort
  \/ \E t \in Tasks : OpenError(t)
  \/ \E i \in 1..Len(queue) : GetError(i)
  \/ \E i \in 1..Len(queue) : CursorError(i)

SpecFault == Init /\ [][NextFault]_vars

\* the event of a request that did not fail: the put or delete at the head
\* of the queue has run, a cursor, an open request or a get has succeeded
Deliver ==
  \/ Commit
  \/ \E i \in 1..Len(queue) : CursorDone(i)
  \/ \E t \in Tasks : OpenSuccess(t)
  \/ \E i \in 1..Len(queue) : GetSuccess(i)

\* the browser's event loop: while requests are outstanding with the store,
\* it goes on delivering their events
SpecFair == SpecFault /\ WF_vars(Deliver)

\* the strings of at most n characters
RECURSIVE Strings(_)
Strings(n) ==
  IF n = 0 THEN {<<>>}
  ELSE LET S == Strings(n - 1)
       IN S \cup {Append(s, ch) : s \in {x \in S : Len(x) = n - 1}, ch \in Chars}

\* normalizePath applied to a string, and again to what it returned
InitNorm ==
  /\ Start /\ store = <<>>
  /\ norm \in {[NoNorm EXCEPT !.p = str] : str \in Strings(MaxLen)}

Normalize ==
  /\ norm.n = 0
  /\ norm' = [norm EXCEPT !.r1 = normalizePath(norm.p), !.n = 1]
  /\ UNCHANGED <<db, store, queue, call, clock, opens, calls, faults, hist, aborted>>

NormalizeAgain ==
  /\ norm.n = 1
  /\ norm' = [norm EXCEPT !.r2 = normalizePath(norm.r1), !.n = 2]
  /\ UNCHANGED <<db, store, queue, call, clock, opens, calls, faults, hist, aborted>>

NextNorm == Normalize \/ NormalizeAgain

SpecNorm == InitNorm /\ [][NextNorm]_vars

TypeOK == calls <= MaxCalls /\ clock <= MaxClock

\* ------------------------------------------------------------------ claims
Settled(c) == c.status \in {"resolved", "rejected"}
Key(c) == normalizePath(c.path)
K_ab  == P_ab
K_cb  == P_cb
K_dir == P_aSlash

\* caller t has no put or delete waiting in the queue
NothingPending(t) ==
  \A i \in 1..Len(queue) : queue[i].task = t => isReadonly(queue[i])

\* C1: a read by the caller whose write was the latest change requested for
\* that normalized path (so nothing touched the path in between) resolves
\* with exactly the content written, the empty string included; the latest
\* write is the one read back.
C1_RoundTrip ==
  \A t \in Tasks :
    LET c == call[t]
        h == HistAt(hist, Key(c))
    IN (c.op = "read" /\ Settled(c) /\ h.op = "write" /\ h.by = t)
         => (c.status = "resolved" /\ c.result = Str(h.val))

\* the file an earlier session left with "hi" was overwritten with "" through
\* "/a//b.txt" and read back through "/a/b.txt"
C1_Witness ==
  \E t \in Tasks :
    /\ call[t].op = "read" /\ call[t].path = P_ab
    /\ call[t].status = "resolved" /\ call[t].result = Str(C_empty)
    /\ HistAt(hist, K_ab).op = "write" /\ HistAt(hist, K_ab).by = t
    /\ HistAt(hist, K_dir).op = "earlier"

\* C2: a move (or rename) between two different normalized paths that
\* resolved with nobody else changing src meanwhile wrote to dst the content
\* src held; once its put and delete have run, src has no record and dst
\* holds that content; and the mover's own exists(src) resolves false and
\* its read(dst) resolves with the content moved, as long as its move is
\* the latest change requested for those paths.
C2_Move ==
  \A t \in Tasks :
    LET c == call[t]
        src == normalizePath(c.path)
        dst == normalizePath(c.dst)
        h == HistAt(hist, src)
    IN /\ (c.op \in {"move", "rename"} /\ c.status = "resolved" /\ src # dst
            /\ c.seen.present /\ c.clean)
           => /\ c.wrote = c.seen.val
              /\ (NothingPending(t) /\ HistAt(hist, src).by = t
                     /\ HistAt(hist, dst).by = t)
                   => (~has(store, src) /\ has(store, dst)
                         /\ store[dst].content = c.seen.val)
       /\ (c.op = "exists" /\ Settled(c) /\ h.op \in {"move", "rename"}
            /\ h.by = t /\ ~h.present)
           => c.result = Bool(FALSE)
       /\ (c.op = "read" /\ Settled(c) /\ h.op \in {"move", "rename"}
            /\ h.by = t /\ h.present)
           => (c.status = "resolved" /\ c.result = Str(h.val))

\* move("/a/b.txt", "/c/b.txt") resolved and ran: "hi" is at /c/b.txt only
C2_Witness ==
  \E t \in Tasks :
    /\ call[t].op = "move" /\ call[t].status = "resolved" /\ call[t].clean
    /\ call[t].path = P_ab /\ call[t].dst = P_cb
    /\ call[t].seen.present /\ call[t].seen.val = C_hi
    /\ NothingPending(t)
    /\ ~has(store, K_ab) /\ has(store, K_cb) /\ store[K_cb].content = C_hi

\* the entries directly in directory d: the stored records whose path is
\* normalize(d) with a trailing separator followed by one segment
DirectEntries(s, d) ==
  LET D == forceTrailingSep(normalizePath(d))
  IN {Meta(s[k]) : k \in {k2 \in DOMAIN s :
        /\ Len(k2) > Len(D)
        /\ SubSeq(k2, 1, Len(D)) = D
        /\ \A i \in (Len(D) + 1)..Len(k2) : k2[i] # SEP}}

\* C3: listDirectory(d) resolves with exactly the entries directly in d; and
\* the record that write("/a//b.txt", "hi") puts into the store has path
\* /a/b.txt, parentDir /a/, name b.txt and size 2.
C3_ListDirectory ==
  [][/\ \A t \in Tasks :
          (call[t].op = "list" /\ call[t].status = "pending"
             /\ call'[t].status = "resolved")
            => call'[t].result = List(DirectEntries(store, call[t].path))
     /\ (store' # store /\ queue # <<>> /\ Head(queue).kind = "put"
           /\ Head(queue).op = "write" /\ Head(queue).arg = P_a_b
           /\ Head(queue).rec.content = C_hi)
         => /\ has(store', K_ab)
            /\ store'[K_ab].path = K_ab
            /\ store'[K_ab].dir = K_dir
            /\ store'[K_ab].name = <<"b", ".", "t", "x", "t">>
            /\ store'[K_ab].size = 2]_vars

\* C4: when the read step of a copy, move or rename finds no record at
\* normalize(src), the call is rejected in that same step, no put or delete
\* is requested and the store is unchanged.
C4_MissingSource ==
  [][\A t \in Tasks :
       LET c == call[t]
       IN (c.op \in {"copy", "move", "rename"} /\ c.status = "pending"
            /\ c.phase = "read" /\ c.pc = "waiting" /\ call'[t] # c
            /\ ~has(store, normalizePath(c.path)))
           => /\ call'[t].status = "rejected"
              /\ store' = store
              /\ hist' = hist
              /\ Len(queue') = Len(queue) - 1
              /\ has(store', normalizePath(c.dst)) = has(store, normalizePath(c.dst))]_vars

\* move on an empty store was rejected as not found; /c/b.txt was never
\* written and nothing was ever asked of the store for it
C4_Witness ==
  \E t \in Tasks :
    /\ call[t].op = "move" /\ call[t].status = "rejected"
    /\ call[t].err = <<"move", "copy", "NotFound">>
    /\ ~has(store, K_ab) /\ ~has(store, K_cb)
    /\ HistAt(hist, K_cb) = NoHist /\ HistAt(hist, K_ab) = NoHist

\* C5: a move or rename whose delete of src did not commit does not resolve
\* successfully.
C5_PartialMove ==
  \A t \in Tasks :
    (call[t].op \in {"move", "rename"} /\ call[t].status = "resolved")
      => ~\E a \in aborted : a.id = call[t].id /\ a.kind = "delete"

\* what the key held, by the latest change requested for it ("" for no record)
Base(h) == IF h.present THEN h.val ELSE <<>>

\* C6: an append that resolved with nobody else changing its path between
\* its invocation and its write handed to writeFile the content the path held
\* (nothing for no record) followed by the appended content; once that put
\* has run and while it is the latest change requested, the record holds
\* exactly that.
C6_Append ==
  \A t \in Tasks :
    LET c == call[t]
        h == HistAt(hist, Key(c))
    IN (c.op = "append" /\ c.status = "resolved" /\ c.clean)
         => /\ c.wrote = Base(c.seen) \o c.content
            /\ (NothingPending(t) /\ h.by = t /\ h.op = "append")
                 => (has(store, Key(c))
                       /\ store[Key(c)].content = Base(c.seen) \o c.content)

\* starting from no record, append "a" then append "b" by one caller, each
\* awaited: the record holds "ab"
C6_Witness ==
  \E t \in Tasks :
    /\ call[t].op = "append" /\ call[t].status = "resolved" /\ call[t].clean
    /\ call[t].content = C_b
    /\ call[t].seen = [op |-> "append", by |-> t, present |-> TRUE, val |-> C_a]
    /\ NothingPending(t)
    /\ HistAt(hist, K_dir) = NoHist
    /\ has(store, K_ab) /\ store[K_ab].content = <<"a", "b">>

\* C7: when two appends to one path have both read the same existing
\* content, both resolve without error and, once their puts have run, the
\* record holds that content followed by the text of the later writer alone.
C7_LostUpdate ==
  \A t, u \in Tasks :
    LET c == call[t]
        d == call[u]
    IN (t # u /\ c.op = "append" /\ d.op = "append" /\ Key(c) = Key(d)
          /\ c.status = "resolved" /\ d.status = "resolved" /\ c.got = d.got
          /\ HistAt(hist, Key(c)).by = t /\ queue = <<>>)
         => /\ c.err = <<>> /\ d.err = <<>>
            /\ has(store, Key(c))
            /\ store[Key(c)].content = c.got \o c.content

\* both callers appended to the file holding "hi", one "a" and one "b"; the
\* later writer wrote after the other's put was requested; both resolved
\* and the record holds "hi" followed by one of the two only
C7_Witness ==
  \E t, u \in Tasks :
    /\ t # u
    /\ call[t].op = "append" /\ call[u].op = "append"
    /\ call[t].status = "resolved" /\ call[u].status = "resolved"
    /\ call[t].content # call[u].content
    /\ call[t].got = C_hi /\ call[u].got = C_hi
    /\ ~call[t].clean /\ HistAt(hist, K_ab).by = t
    /\ queue = <<>>
    /\ store[K_ab].content = C_hi \o call[t].content

\* C8: the step in which a remove(p) takes effect removes the record at
\* normalize(p), if there is one, and changes no other record.
C8_RemoveExact ==
  [][(queue # <<>> /\ Head(queue).kind = "delete" /\ queue' = Tail(queue)
        /\ aborted' = aborted)
       => /\ DOMAIN store' = DOMAIN store \ {normalizePath(Head(queue).arg)}
          /\ \A k \in DOMAIN store' : store'[k] = store[k]]_vars

\* remove("/a/") has run: the directory record is gone and /a/b.txt is as
\* the earlier session left it
C8_Witness ==
  /\ HistAt(hist, K_dir).op = "delete"
  /\ HistAt(hist, K_ab).op = "earlier"
  /\ queue = <<>>
  /\ DOMAIN store = {K_ab}
  /\ store[K_ab] = EarlierSession[K_ab]

\* C9: remove never fails, whether or not there is a record; once the delete
\* of a caller's remove has run and while it is the latest change requested
\* for the path, the path has no record, and the caller's own exists(p)
\* resolves false.
C9_RemoveIdempotent ==
  \A t \in Tasks :
    LET c == call[t]
        h == HistAt(hist, Key(c))
    IN /\ (c.op = "delete" /\ Settled(c)) => c.status = "resolved"
       /\ (c.op = "delete" /\ Settled(c) /\ NothingPending(t)
             /\ h.by = t /\ h.op = "delete")
           => ~has(store, Key(c))
       /\ (c.op = "exists" /\ Settled(c) /\ h.by = t /\ h.op = "delete")
           => c.result = Bool(FALSE)

\* the second of two remove("/a//b.txt") in a row, on a path the first one
\* had already emptied, resolved and has run
C9_Witness ==
  \E t \in Tasks :
    /\ call[t].op = "delete" /\ call[t].status = "resolved"
    /\ call[t].path = P_a_b
    /\ call[t].seen.op = "delete" /\ call[t].seen.by = t
    /\ HistAt(hist, K_ab).by = t
    /\ queue = <<>>
    /\ ~has(store, K_ab)

\* C10: a put onto a path that already holds a record leaves the record's
\* createdAt as it was.
C10_CreatedAtKept ==
  [][\A k \in DOMAIN store \cap DOMAIN store' :
       store'[k].createdAt = store[k].createdAt]_vars

\* C11: exists never fails.  The step that settles an exists call resolves it
\* with a boolean; when that step is a store fault (the open request or the
\* lookup failed) the boolean is false; when it is not, the boolean tells
\* whether the store holds a record at normalize(p).
C11_ExistsNeverFails ==
  [][\A t \in Tasks :
       LET c == call[t]
           d == call'[t]
       IN (c.op = "exists" /\ c.status = "pending" /\ d.status # "pending")
            => /\ d.status = "resolved"
               /\ d.result \in {Bool(TRUE), Bool(FALSE)}
               /\ faults' # faults => d.result = Bool(FALSE)
               /\ faults' = faults
                    => d.result = Bool(has(store, normalizePath(c.path)))]_vars

\* exists("/a/b.txt") resolved false after a store fault although the record
\* an earlier session left at /a/b.txt was never touched
C11_Witness ==
  \E t \in Tasks :
    /\ call[t].op = "exists" /\ call[t].status = "resolved"
    /\ call[t].result = Bool(FALSE)
    /\ faults = 1
    /\ has(store, K_ab) /\ HistAt(hist, K_ab).op = "earlier"

\* C12: a write, remove, mkdir or copy whose put or delete aborted has failed
\* to its caller.
C12_FaultPropagates ==
  \A t \in Tasks :
    (call[t].op \in {"write", "delete", "mkdir", "copy"}
       /\ \E a \in aborted : a.id = call[t].id)
      => call[t].status = "rejected"

\* C13: a read or stat that failed on a path with no record carries the
\* not-found cause wrapped in the name of the operation.
C13_NotFoundWrapped ==
  \A t \in Tasks :
    (call[t].op \in {"read", "stat"} /\ call[t].status = "rejected")
      => call[t].err = <<call[t].op, "NotFound">>

\* C14: every call that is pending eventually settles.
C14_Settles ==
  \A t \in Tasks : (call[t].status = "pending") ~> (call[t].status # "pending")

\* a string in canonical form: it begins with the separator and no two
\* separators follow each other
Canonical(k) ==
  /\ startsWithSep(k)
  /\ \A i \in 1..(Len(k) - 1) : ~(k[i] = SEP /\ k[i + 1] = SEP)

\* C15: normalizePath(p) begins with the separator and has no two separators
\* in a row (so it begins with exactly one), and normalizing it again
\* returns it unchanged.
C15_NormalizeIdempotent ==
  /\ norm.n >= 1 => (Canonical(norm.r1) /\ norm.r1 = normalizePath(norm.p))
  /\ norm.n = 2 => norm.r2 = norm.r1

\* "a//a" was normalized to "/a/a" and that to itself
C15_Witness ==
  /\ norm.n = 2
  /\ norm.p = <<"a", "/", "/", "a">>
  /\ norm.r1 = <<"/", "a", "/", "a">>
  /\ norm.r2 = <<"/", "a", "/", "a">>

\* C16: a call has no later request in the queue behind a put or delete of
\* its own that has not committed yet, and a composite call that resolved
\* has no put or delete waiting.
C16_StepOrder ==
  /\ \A i, j \in 1..Len(queue) :
       (i < j /\ queue[i].id = queue[j].id) => isReadonly(queue[i])
  /\ \A t \in Tasks :
       (call[t].op \in {"copy", "move", "rename", "append"}
          /\ call[t].status = "resolved")
         => \A i \in 1..Len(queue) :
              queue[i].id = call[t].id => isReadonly(queue[i])

\* C17: the store is opened at most once.
C17_OpenOnce == opens <= 1

\* s is the beginning of k
IsPrefix(s, k) == Len(s) <= Len(k) /\ SubSeq(k, 1, Len(s)) = s

\* C18: the parentDir of every record a put stores is a prefix of the
\* record's path and ends in a separator.
C18_ParentDir ==
  [][\A k \in DOMAIN store' :
       (k \notin DOMAIN store \/ store'[k] # store[k])
         => /\ IsPrefix(store'[k].dir, store'[k].path)
            /\ isDirectory(store'[k].dir)]_vars

\* C19: every record is stored under its own path, which is in canonical
\* form, and so is the key of every request placed; the key is a function
\* of the normalized path argument (for mkdir and listFiles with a trailing
\* separator added), so two arguments of one operation that normalize to
\* the same string address the same record.
C19_CanonicalKeys ==
  /\ \A k \in DOMAIN store : store[k].path = k /\ Canonical(k)
  /\ \A i \in 1..Len(queue) :
       LET tx == queue[i]
       IN /\ Canonical(tx.key)
          /\ tx.kind = "put" => tx.rec.path = tx.key
          /\ tx.key = IF tx.kind = "cursor" \/ (tx.kind = "put" /\ tx.op = "mkdir")
                      THEN forceTrailingSep(normalizePath(tx.arg))
                      ELSE normalizePath(tx.arg)

\* the put of write("/a//b.txt", ..) and a request made with "/a/b.txt"
\* wait in the queue with the same key /a/b.txt
C19_Witness ==
  \E i, j \in 1..Len(queue) :
    /\ i < j
    /\ queue[i].kind = "put" /\ queue[i].arg = P_a_b
    /\ queue[j].arg = P_ab
    /\ queue[i].key = K_ab /\ queue[j].key = K_ab

\* C20: a record's path ends with a separator iff its kind is directory, and
\* a directory record has empty content and size 0.
C20_KindMatchesPath ==
  \A k \in DOMAIN store :
    /\ isDirectory(store[k].path) <=> store[k].type = "directory"
    /\ store[k].type = "directory" => (store[k].content = <<>> /\ store[k].size = 0)

\* C21: a move or rename that resolved with nobody else changing src
\* meanwhile, whose put and delete have run and which is the latest change
\* requested for dst, has left at normalize(dst) a record with the content
\* src held, also when src and dst normalize to the same path.
C21_MoveKeepsContent ==
  \A t \in Tasks :
    LET c == call[t]
        dst == normalizePath(c.dst)
    IN (c.op \in {"move", "rename"} /\ c.status = "resolved"
          /\ c.seen.present /\ c.clean
          /\ \A i \in 1..Len(queue) : queue[i].id # c.id
          /\ HistAt(hist, dst).by = t /\ HistAt(hist, dst).op = c.op)
         => (has(store, dst) /\ store[dst].content = c.seen.val)

\* C22: an append to a path whose record earlier sessions left and nobody
\* asked to change, up to the append's own write, that resolved has handed
\* to writeFile the stored content followed by the appended content.
C22_AppendKeepsContent ==
  \A t \in Tasks :
    LET c == call[t]
    IN (c.op = "append" /\ c.status = "resolved" /\ c.clean
          /\ c.seen.op = "earlier")
         => c.wrote = c.seen.val \o c.content

\* C23: a readLines invoked after caller u's writeLines(p, L) was the latest
\* change requested for the path, and settled while it still was, resolves
\* with exactly the lines L when L is an array; and writeLines(p, s) with a
\* single string s handed s itself to writeFile.
C23_LinesRoundTrip ==
  \A t, u \in Tasks :
    LET c == call[t]
        w == call[u]
    IN /\ (c.op = "readLines" /\ Settled(c)
            /\ w.op = "writeLines" /\ w.status = "resolved" /\ Key(w) = Key(c)
            /\ c.seen.op = "writeLines" /\ c.seen.by = u
            /\ HistAt(hist, Key(c)) = c.seen
            /\ w.lines.isArray)
           => (c.status = "resolved" /\ c.result = Lines(w.lines.v))
       /\ (w.op = "writeLines" /\ w.status = "resolved" /\ ~w.lines.isArray)
           => w.wrote = w.lines.v[1]

====
